---- MODULE Spec2Model ----
(***************************************************************************)
(* Request pipeline of the banana / studio image back ends: request        *)
(* validation at the HTTP entry points, the provider call with its retry   *)
(* loop, extraction and normalisation of the inline payload, and the       *)
(* response handed back to the caller.                                     *)
(* Further specifications cover the provider client set-up, the session   *)
(* store behind login / logout, and the prompt optimizer.                  *)
(***************************************************************************)
EXTENDS Integers, Sequences, FiniteSets, TLC

VARIABLES
    entry,        \* HTTP entry point that received the request
    mode,         \* "banana" | "banana_pro" | "chat" | any other string
    prompt,       \* the message / prompt text
    pc,           \* position of the request in its handler
    attempt,      \* loop variable of the retry loop
    retry_delay,  \* the chat loops' mutable delay (seconds)
    calls,        \* number of provider calls made for this request
    errs,         \* exceptions the provider call has raised so far
    sleeps,       \* durations passed to time.sleep, in order
    response,     \* what the provider call returned
    decodes,      \* number of base64 decodes applied to the payload
    extracted,    \* (data, mime) the extractor returned
    genret,       \* value returned by the generator function
    result,       \* response of the entry point
    reference_images,  \* the reference images uploaded with the request
    aspect_ratio, \* the aspect_ratio field of the request
    sent,         \* what the last provider call was given
    environ,      \* os.environ of the back-end process
    key_file,     \* whether a google-key.json lies on the search path
    clients,      \* per request: the provider client it was given
    sessions,     \* the sessions table: token -> row
    user_sessions,\* the in-memory dictionary: token -> user id
    now,          \* the clock
    answer,       \* what the last session call returned
    issued,       \* per token: the last call that created a session for it
    closed,       \* tokens whose session was ended and not created since
    opt_prompt,   \* the prompt optimize_prompt was called with
    response_text,\* response.text of the text model
    opt_attempt,  \* loop variable of optimize_prompt's retry loop
    optimized_prompt, \* what optimize_prompt returned
    opt_pc        \* position of the optimize_prompt call

reqvars == <<entry, mode, prompt, pc, attempt, retry_delay, calls,
             errs, sleeps, response, decodes, extracted, genret, result,
             reference_images, aspect_ratio, sent>>

clientvars == <<environ, key_file, clients>>

sessvars == <<sessions, user_sessions, now, answer, issued, closed>>

optvars == <<opt_prompt, response_text, opt_attempt, optimized_prompt, opt_pc>>

hostvars == <<clientvars, sessvars, optvars>>

vars == <<reqvars, hostvars>>

None == [tag |-> "none"]

(***************************************************************************)
(* Process-wide state of the banana back end.  An environment variable is  *)
(* recorded with the requests that wrote it: by = {} is a value the        *)
(* process started with (or the absence of one), by = {r} one that the     *)
(* handling of request r stored.                                           *)
(***************************************************************************)
NRequests == 2

Requests == 1..NRequests

EnvKeys == {"VERTEX_AI_PROJECT", "GOOGLE_CLOUD_PROJECT",
            "GOOGLE_CLOUD_API_KEY", "GOOGLE_APPLICATION_CREDENTIALS"}

EnvVar(set, by) == [set |-> set, by |-> by]

NoClient == [pc |-> "waiting", client |-> "none", saw |-> {}]

IdleClient ==
    /\ environ = [k \in EnvKeys |-> EnvVar(FALSE, {})]
    /\ key_file = FALSE
    /\ clients = [r \in Requests |-> NoClient]

(***************************************************************************)
(* Sessions of the banana back end: the sessions table of the database and *)
(* the user_sessions dictionary of routes/auth.py.  Time is counted in     *)
(* days.  answer is what the last call returned, issued and closed record  *)
(* how each token came into being and which tokens were ended since.       *)
(***************************************************************************)
MaxTime == 2

SessionTTL == 1

Users == {"u1", "u2"}

ManagerId == "manager_user"

NoUser == ""

FreshTokens == {"tok1", "tok2"}

Tokens == FreshTokens \cup {"manager_user"}

Row(u, exp) == [user_id |-> u, expires_at |-> exp]

NoRow == Row(NoUser, 0)

Answer(op, t, u, status, at) ==
    [op |-> op, token |-> t, user |-> u, status |-> status, at |-> at]

Issued(kind, u, exp, ok) ==
    [kind |-> kind, user |-> u, expires_at |-> exp, ok |-> ok]

IdleSession ==
    /\ sessions = [t \in Tokens |-> NoRow]
    /\ user_sessions = [t \in Tokens |-> NoUser]
    /\ now = 0
    /\ answer = Answer("none", "", NoUser, 0, 0)
    /\ issued = [t \in Tokens |-> Issued("none", NoUser, 0, FALSE)]
    /\ closed = {}

IdleOptimizer ==
    /\ opt_prompt = <<>>
    /\ response_text = <<>>
    /\ opt_attempt = 0
    /\ optimized_prompt = <<>>
    /\ opt_pc = "Idle"

IdleHost == IdleClient /\ IdleSession /\ IdleOptimizer

(***************************************************************************)
(* Exceptions of the provider call.  name / msg hold the substrings the    *)
(* code tests for in type(e).__name__ and str(e); kind is the fault the    *)
(* exception stands for.                                                   *)
(***************************************************************************)
Exc(kind, name, msg) == [kind |-> kind, name |-> name, msg |-> msg]

Excs ==
    { Exc("Timeout",        {"Timeout"},            {"timed out"}),
      Exc("ProxyOrNetwork", {"ProxyError"},         {"proxy"}),
      Exc("RateLimited",    {"ClientError"},        {"429", "too many"}),
      Exc("Quota",          {"ClientError"},        {"quota"}),
      Exc("Auth",           {"ClientError"},        {"401", "api"}),
      Exc("Unavailable",    {"ServiceUnavailable"}, {"503"}),
      Exc("Unavailable",    {"RetryError"},         {"Timeout"}),
      Exc("SafetyBlocked",  {"ClientError"},        {"safety"}),
      Exc("Unknown",        {"ValueError"},         {}) }

\* ---------------------------------------------------------------- requests
Entries == {"studio:/api/banana-img-pro", "banana:/api/process",
            "banana:/api/process-json", "banana:/api/chat", "studio:chat"}

\* the mode strings the entry points name; Unregistered is any other string
RegisteredModes == {"banana", "banana_pro", "chat"}
Unregistered == "sketch"
Modes(e) ==
    CASE e = "studio:/api/banana-img-pro" -> {"banana_pro"}
      [] e \in {"banana:/api/process", "banana:/api/process-json"} ->
             RegisteredModes \cup {Unregistered}
      [] OTHER -> {"chat"}

Prompts == {"", "a cat"}

\* The generator a request is dispatched to.
Gen ==
    CASE entry = "studio:/api/banana-img-pro" -> "studio_g3"
      [] entry = "studio:chat" -> "studio_chat"
      [] mode = "banana" -> "banana_g25"
      [] mode = "banana_pro" -> "banana_g3"
      [] OTHER -> "banana_chat"

IsImageGen == Gen \in {"studio_g3", "banana_g3", "banana_g25"}

\* BananaImageRequest.is_valid
is_valid(message) == message # ""

\* ------------------------------------------------------------- retry loops
max_retries == 3
base_retry_delay == 2

\* 2 ** n
Pow2Wrong(n) == 2 * n
RECURSIVE Pow2(_)
Pow2(n) == IF n = 0 THEN 1 ELSE 2 * Pow2(n - 1)

\* generate_with_gemini_image3: is_rate_limit
is_rate_limit_timeout(e) ==
    "429" \in e.msg \/ "too many" \in e.msg \/ "quota" \in e.msg
        \/ "Timeout" \in e.name
is_rate_limit_no_quota(e) ==
    "429" \in e.msg \/ "too many" \in e.msg
is_rate_limit(e) ==
    "429" \in e.msg \/ "too many" \in e.msg \/ "quota" \in e.msg

\* chat: the except clause that retries
chat_retryable(e) == "ServiceUnavailable" \in e.name \/ "RetryError" \in e.name

\* the exceptions the retry loop of a generator goes round again for; the
\* banana image generators call the provider once, outside any loop
Retryable(g, e) ==
    CASE g = "studio_g3" -> is_rate_limit(e)
      [] g \in {"banana_chat", "studio_chat"} -> chat_retryable(e)
      [] OTHER -> FALSE

\* the loop bound: attempt counts 1..max_retries in generate_with_gemini_image3
\* and 0..max_retries-1 in chat
AttemptsLeft(g, att) ==
    CASE g = "studio_g3" -> att < max_retries
      [] g \in {"banana_chat", "studio_chat"} -> att < max_retries - 1
      [] OTHER -> FALSE

\* the number of provider calls a generator allows itself
MaxRetriesOf(g) ==
    IF g \in {"studio_g3", "banana_chat", "studio_chat"} THEN max_retries ELSE 1

\* does the handler sleep and try again after exception e on this attempt
RetriesOneFewer(g, e, att) == Retryable(g, e) /\ AttemptsLeft(g, att + 1)
RetriesAny(g, e, att) == AttemptsLeft(g, att)
Retries(g, e, att) == Retryable(g, e) /\ AttemptsLeft(g, att)

\* The duration slept before the next attempt
WaitTime(g, att, delay) ==
    IF g = "studio_g3" THEN base_retry_delay * Pow2(att - 1) ELSE delay

\* error_code the generator attaches to an exception of the provider call
ErrorCode(g, e) ==
    CASE g = "studio_g3" -> "none"
      [] g = "banana_g3" ->
           IF "ProxyError" \in e.name \/ "proxy" \in e.msg THEN "PROXY_ERROR"
           ELSE IF "ChunkedEncodingError" \in e.name THEN "CHUNKED_ENCODING_ERROR"
           ELSE IF "Timeout" \in e.name \/ "timeout" \in e.msg THEN "TIMEOUT_ERROR"
           ELSE IF "safety" \in e.msg THEN "SAFETY_BLOCKED"
           ELSE IF "api" \in e.msg THEN "API_ERROR"
           ELSE "UNKNOWN_ERROR"
      [] g = "banana_g25" ->
           IF "Timeout" \in e.name \/ "timeout" \in e.msg THEN "TIMEOUT_ERROR"
           ELSE IF "ProxyError" \in e.name \/ "proxy" \in e.msg THEN "PROXY_ERROR"
           ELSE IF "safety" \in e.msg THEN "SAFETY_BLOCKED"
           ELSE "GENERATION_ERROR"
      [] OTHER -> "none"

\* variant: a failed provider call handed on as if it were an image
GenErrorAsImage(type, code) ==
    [tag |-> "image", error_type |-> type, error_code |-> code,
     image_bytes |-> <<>>, image_data |-> <<>>, format |-> "png",
     mime |-> "image/png"]
GenError(type, code) == [tag |-> "error", error_type |-> type, error_code |-> code]
GenText == [tag |-> "text"]

\* ------------------------------------------------------ bytes and base64
\* Bytes and text are sequences of character codes (0..255 for bytes).
Prefix(s, n) == SubSeq(s, 1, IF Len(s) < n THEN Len(s) ELSE n)
startswith(s, p) == Len(s) >= Len(p) /\ SubSeq(s, 1, Len(p)) = p
Repeat(c, n) == [i \in 1..n |-> c]

PAD == 61                      \* "="

\* the base64 alphabet: index -> character code
B64Char(i) ==
    IF i < 26 THEN 65 + i
    ELSE IF i < 52 THEN 97 + (i - 26)
    ELSE IF i < 62 THEN 48 + (i - 52)
    ELSE IF i = 62 THEN 43 ELSE 47

\* character code -> index, 64 for a character outside the alphabet
B64Val(c) ==
    IF c >= 65 /\ c <= 90 THEN c - 65
    ELSE IF c >= 97 /\ c <= 122 THEN c - 97 + 26
    ELSE IF c >= 48 /\ c <= 57 THEN c - 48 + 52
    ELSE IF c = 43 THEN 62
    ELSE IF c = 47 THEN 63 ELSE 64

\* base64.b64encode: every 3 bytes give 4 characters, the last group is padded
b64encode(s) ==
    LET n == Len(s)
        At(k) == IF k <= n THEN s[k] ELSE 0
        Ch(g, p) ==            \* character p (0..3) of group g (0-based)
            LET b0 == At(3 * g + 1)
                b1 == At(3 * g + 2)
                b2 == At(3 * g + 3)
            IN CASE p = 0 -> B64Char(b0 \div 4)
                 [] p = 1 -> B64Char((b0 % 4) * 16 + (b1 \div 16))
                 [] p = 2 -> IF 3 * g + 2 > n THEN PAD
                             ELSE B64Char((b1 % 16) * 4 + (b2 \div 64))
                 [] OTHER -> IF 3 * g + 3 > n THEN PAD
                             ELSE B64Char(b2 % 64)
    IN [k \in 1..(4 * ((n + 2) \div 3)) |-> Ch((k - 1) \div 4, (k - 1) % 4)]

\* binascii.a2b_base64 in its default (non-strict) mode: characters outside
\* the alphabet are skipped; a pad met after 3 characters of a quad, or a
\* second pad after 2 characters, ends the input; a quad left incomplete at
\* the end of the input is an error.
IsB64OrPad(c) == B64Val(c) < 64 \/ c = PAD
IsB64(c) == B64Val(c) < 64
\* t: the input without the skipped characters.  Characters of the quad that
\* is open at position i
Quad(t, i) == Len(SelectSeq(SubSeq(t, 1, i - 1), IsB64)) % 4
\* does the pad at position i end the input, q characters into the quad
PadEnds(t, i, q) == q = 3 \/ (q = 2 /\ i > 1 /\ t[i - 1] = PAD)
Ends(t) == {i \in 1..Len(t) : t[i] = PAD /\ PadEnds(t, i, Quad(t, i))}
Least(S, default) ==
    IF S = {} THEN default ELSE CHOOSE i \in S : \A j \in S : i <= j
\* byte p (0..2) of the quad whose characters have the values v1..v4
QuadByte(p, v1, v2, v3, v4) ==
    CASE p = 0 -> v1 * 4 + (v2 \div 16)
      [] p = 1 -> (v2 % 16) * 16 + (v3 \div 4)
      [] OTHER -> (v3 % 4) * 64 + v4
\* value of the k-th data character, 0 past the end
ValAt(d, k) == IF k <= Len(d) THEN B64Val(d[k]) ELSE 0
\* number of bytes n data characters decode to
OutLen(n) == 3 * (n \div 4) + (IF n % 4 >= 2 THEN (n % 4) - 1 ELSE 0)
\* d: the data characters before the pad that ended the input
A2BData(d, ended) ==
    [ok |-> ended \/ Len(d) % 4 = 0,
     data |-> [k \in 1..OutLen(Len(d)) |->
                 QuadByte((k - 1) % 3,
                          ValAt(d, 4 * ((k - 1) \div 3) + 1),
                          ValAt(d, 4 * ((k - 1) \div 3) + 2),
                          ValAt(d, 4 * ((k - 1) \div 3) + 3),
                          ValAt(d, 4 * ((k - 1) \div 3) + 4))]]
A2BStop(t, stop) ==
    A2BData(SelectSeq(SubSeq(t, 1, stop - 1), IsB64), stop <= Len(t))
A2BFiltered(t) == A2BStop(t, Least(Ends(t), Len(t) + 1))
a2b_base64(s) == A2BFiltered(SelectSeq(s, IsB64OrPad))

IsAscii(s) == \A i \in 1..Len(s) : s[i] < 128

\* base64.b64decode(x) without validate: text must be ASCII, then a2b_base64
b64decode_identity(s) == [ok |-> TRUE, data |-> s]
b64decode(s) ==
    IF ~IsAscii(s) THEN [ok |-> FALSE, data |-> <<>>]
    ELSE a2b_base64(s)

\* bytes.decode('utf-8', errors='ignore'): well-formed sequences are kept
\* (a multi-byte character is the code NonAscii), ill-formed bytes are dropped.
NonAscii == 1000
IsCont(b) == b >= 128 /\ b <= 191
\* number of continuation bytes a lead byte asks for, 0 when it is no lead
Need(b) ==
    IF b >= 194 /\ b <= 223 THEN 1
    ELSE IF b >= 224 /\ b <= 239 THEN 2
    ELSE IF b >= 240 /\ b <= 244 THEN 3 ELSE 0
\* the range allowed for the byte right after the lead byte
SecondOk(lead, b) ==
    CASE lead = 224 -> b >= 160 /\ b <= 191
      [] lead = 237 -> b >= 128 /\ b <= 159
      [] lead = 240 -> b >= 144 /\ b <= 191
      [] lead = 244 -> b >= 128 /\ b <= 143
      [] OTHER -> IsCont(b)
\* how many of the bytes after position i continue the sequence started at i
RECURSIVE ContRun(_, _, _, _)
ContRun(s, i, k, need) ==
    IF k > need \/ i + k > Len(s) THEN k - 1
    ELSE IF (IF k = 1 THEN SecondOk(s[i], s[i + k]) ELSE IsCont(s[i + k]))
         THEN ContRun(s, i, k + 1, need)
         ELSE k - 1
\* An ASCII byte and a lead byte always start a unit, so what position i
\* contributes does not depend on the bytes before it.
Utf8Unit(s, i) ==
    IF s[i] < 128 THEN s[i]
    ELSE IF Need(s[i]) > 0 /\ ContRun(s, i, 1, Need(s[i])) = Need(s[i])
    THEN NonAscii
    ELSE -1
IsKept(c) == c >= 0
decode_utf8_ignore(s) ==
    SelectSeq([i \in 1..Len(s) |-> Utf8Unit(s, i)], IsKept)

\* ------------------------------------------------------------------ images
JPEG_MAGIC == <<255, 216, 255>>
PNG_MAGIC  == <<137, 80, 78, 71>>
GIF87      == <<71, 73, 70, 56, 55, 97>>
GIF89      == <<71, 73, 70, 56, 57, 97>>
RIFF       == <<82, 73, 70, 70>>

Header(fmt) ==
    CASE fmt = "jpeg" -> <<255, 216, 255, 224, 0, 16, 74, 70, 73, 70>>
      [] fmt = "png"  -> <<137, 80, 78, 71, 13, 10, 26, 10>>
      [] fmt = "gif"  -> GIF89
      [] OTHER        -> RIFF \o <<65, 65, 65, 65>> \o <<87, 69, 66, 80>>

Formats == {"jpeg", "png", "gif", "webp"}

\* A raw image file: the header of its format, then n - Len(header) body bytes
RawImage(fmt, n, fill) == Header(fmt) \o Repeat(fill, n - Len(Header(fmt)))

\* PIL: Image.open(...).load().  The decoder is an oracle on the bytes: a
\* file decodes when it carries the header of a format and its body was not
\* cut (a damaged body ends in the byte Damaged).
Damaged == 255
PILFormat(b) ==
    IF Len(b) < 12 \/ b[Len(b)] = Damaged THEN "none"
    ELSE IF startswith(b, Header("jpeg")) THEN "jpeg"
    ELSE IF startswith(b, Header("png")) THEN "png"
    ELSE IF startswith(b, Header("gif")) THEN "gif"
    ELSE IF startswith(b, Header("webp")) THEN "webp"
    ELSE "none"

\* --------------------------------------------------- provider responses
Payload(t, d) == [t |-> t, d |-> d]          \* t: "bytes" | "str"
TextPart == [inline |-> FALSE, data |-> Payload("str", <<>>), mime |-> ""]
InlinePart(p, mime) == [inline |-> TRUE, data |-> p, mime |-> mime]
Resp(cands, finish, parts, attr) ==
    [candidates |-> cands, finish_reason |-> finish, parts |-> parts,
     parts_attr |-> attr]

Got(p, mime, n) == [tag |-> "data", data |-> p, mime |-> mime, n |-> n]
NoData == [tag |-> "none", data |-> Payload("str", <<>>), mime |-> "", n |-> 0]
SafetyBlockedRet ==
    [tag |-> "safety", data |-> Payload("str", <<>>), mime |-> "error", n |-> 0]

\* index of the first part that carries inline_data, 0 when there is none
FirstInline(parts) ==
    IF \E i \in 1..Len(parts) : parts[i].inline
    THEN CHOOSE i \in 1..Len(parts) :
            parts[i].inline /\ \A j \in 1..(i - 1) : ~parts[j].inline
    ELSE 0

\* ---------------------------------------- studio: ImageProcessor
_looks_like_base64_text(text) ==
    /\ Len(text) > 0
    /\ Len(text) % 4 = 0
    /\ \A i \in 1..Len(text) : B64Val(text[i]) < 64 \/ text[i] \in {PAD, 10, 13}

\* validate=True first, plain b64decode when that raises: the bytes are the
\* plain decoder's whenever it accepts the text
_decode_base64_to_bytes(text) == b64decode(text)

_is_image_magic(raw) ==
    \/ startswith(raw, JPEG_MAGIC)
    \/ startswith(raw, PNG_MAGIC)
    \/ startswith(raw, GIF87) \/ startswith(raw, GIF89)
    \/ startswith(raw, RIFF)

\* the decode both branches of extract_from_response try on base64 text:
\* kept only when the text looks like base64 and decodes to an image signature
TryDecodeOf(text, dec) ==
    IF _looks_like_base64_text(text) /\ dec.ok /\ dec.data # <<>>
         /\ _is_image_magic(dec.data)
    THEN [ok |-> TRUE, data |-> dec.data]
    ELSE [ok |-> FALSE, data |-> <<>>]
TryDecode(text) == TryDecodeOf(text, _decode_base64_to_bytes(text))

\* the branches for a bytes and a str payload; td is TryDecode of the payload
ExtractPart(part, td) ==
    IF part.data.t = "bytes"
    THEN IF IsAscii(part.data.d) /\ td.ok
         THEN Got(Payload("bytes", td.data), part.mime, 1)
         ELSE Got(part.data, part.mime, 0)
    ELSE IF td.ok
         THEN Got(Payload("bytes", td.data), part.mime, 1)
         ELSE NoData
ExtractAt(parts, i) ==
    IF i = 0 THEN NoData
    ELSE ExtractPart(parts[i], TryDecode(parts[i].data.d))
extract_from_response(resp) ==
    IF ~resp.candidates THEN NoData
    ELSE ExtractAt(resp.parts, FirstInline(resp.parts))

MinImageBytes == 100
B64_PNG4  == <<105, 86, 66, 79>>            \* "iVBO"
B64_PNG5  == <<105, 86, 66, 79, 82>>        \* "iVBOR"
B64_JPEG  == <<47, 57, 106, 47>>            \* "/9j/"
B64_GIF   == <<82, 48, 108, 71, 79>>        \* "R0lGO"
B64B64_A  == <<76, 122, 108, 113, 76, 122>> \* "LzlqLz"
B64B64_B  == <<76, 122, 108, 113, 76, 119>> \* "LzlqLw"

\* ImageProcessor.validate_and_encode: (is_valid, format)
Verdict(valid, format) == [valid |-> valid, format |-> format]
\* the checks on the raw bytes b, pil being what PIL makes of them
ValidateRaw(b, pil) ==
    IF pil = "none" THEN Verdict(FALSE, "none")
    ELSE IF Prefix(b, 3) = JPEG_MAGIC THEN Verdict(TRUE, "jpeg")
    ELSE IF Prefix(b, 4) = PNG_MAGIC THEN Verdict(TRUE, "png")
    ELSE Verdict(TRUE, pil)
ValidateBytes(b) == ValidateRaw(b, PILFormat(b))
\* bytes that start like base64 of an image are decoded first
ValidateDecoded(image_bytes, dec) ==
    ValidateBytes(IF Prefix(image_bytes, 4) \in {B64_PNG4, B64_JPEG}
                     /\ dec.ok /\ dec.data # <<>>
                  THEN dec.data ELSE image_bytes)
validate_and_encode(image_bytes) ==
    IF Len(image_bytes) < MinImageBytes THEN Verdict(FALSE, "none")
    ELSE ValidateDecoded(image_bytes, b64decode(image_bytes))

GenImage(bytes, data, format, mime) ==
    [tag |-> "image", image_bytes |-> bytes, image_data |-> data,
     format |-> format, mime |-> mime]

\* generate_with_gemini_image3 (studio) after the provider call returned
StudioValidated(r, v) ==
    IF ~v.valid THEN GenError("InvalidImage", "none")
    ELSE GenImage(r.data.d, <<>>, v.format, v.format)
StudioExtracted(r) ==
    IF r.tag # "data" THEN GenError("NoImageInResponse", "none")
    ELSE StudioValidated(r, validate_and_encode(r.data.d))
StudioFinish(resp) == StudioExtracted(extract_from_response(resp))

\* ------------------------------------ banana: gemini_3_pro_image.py
_is_base64_string(data) ==
    /\ Len(data) >= 4
    /\ startswith(data, B64_JPEG) \/ startswith(data, B64_PNG5)
          \/ startswith(data, B64_GIF)

\* One pass over a parts list (the loops of 方式1 and 方式2): mime_type is
\* overwritten by every inline part visited, the first part that yields
\* non-empty data ends the loop.
Found(data, mime, n) == [found |-> TRUE, data |-> data, mime |-> mime, n |-> n]
NotFound(mime) ==
    [found |-> FALSE, data |-> Payload("str", <<>>), mime |-> mime, n |-> 0]
\* a str payload: kept as it is when it starts like base64 of an image,
\* decoded otherwise
ScanStr(part, m, dec) ==
    IF _is_base64_string(part.data.d) THEN Found(part.data, m, 0)
    ELSE IF dec.ok /\ dec.data # <<>> THEN Found(Payload("bytes", dec.data), m, 1)
    ELSE NotFound(m)
ScanInline(part, m) ==
    IF part.data.t = "str" THEN ScanStr(part, m, b64decode(part.data.d))
    ELSE IF part.data.d # <<>> THEN Found(part.data, m, 0)
    ELSE NotFound(m)
ScanOne(part, mime) ==
    IF ~part.inline THEN NotFound(mime)
    ELSE ScanInline(part, IF part.mime # "" THEN part.mime ELSE mime)
RECURSIVE ScanParts(_, _, _)
ScanNext(parts, i, r) == IF r.found THEN r ELSE ScanParts(parts, i + 1, r.mime)
ScanParts(parts, i, mime) ==
    IF i > Len(parts) THEN NotFound(mime)
    ELSE ScanNext(parts, i, ScanOne(parts[i], mime))

IsSafetyFinish(reason) == reason \in {"SAFETY", "IMAGE_SAFETY"}

FoundGot(m) == IF m.found THEN Got(m.data, m.mime, m.n) ELSE NoData
\* m1: what the pass over response.parts found
ExtractAfterMethod1(resp, m1) ==
    IF m1.found THEN FoundGot(m1)
    ELSE IF ~resp.candidates THEN NoData
    ELSE IF IsSafetyFinish(resp.finish_reason) THEN SafetyBlockedRet
    ELSE FoundGot(ScanParts(resp.parts, 1, m1.mime))
_extract_image_from_response(resp) ==
    ExtractAfterMethod1(resp,
        ScanParts(IF resp.parts_attr /\ resp.candidates THEN resp.parts ELSE <<>>,
                  1, "image/jpeg"))

\* 'image/png' -> 'png'; the default when the type is not image/...
FormatOfMime(mime, default) ==
    CASE mime = "image/png" -> "png"
      [] mime = "image/jpeg" -> "jpeg"
      [] mime = "image/gif" -> "gif"
      [] mime = "image/webp" -> "webp"
      [] OTHER -> default

\* format named from the prefix of a base64 image string
B64Format(text, mime) ==
    IF startswith(text, B64_JPEG) THEN "jpeg"
    ELSE IF startswith(text, B64_PNG4) THEN "png"
    ELSE FormatOfMime(mime, "jpeg")

\* variant: the claimed MIME type is kept whatever the decoder detects
MimeOfPilClaimed(pil, mime) == mime
\* the MIME type generate_image settles on for image_bytes
MimeOfPil(pil, mime) ==
    IF pil = "none" THEN mime
    ELSE IF pil = "jpeg" THEN "image/jpeg" ELSE "image/png"
G3Mime(image_bytes, mime) == MimeOfPil(PILFormat(image_bytes), mime)

\* tail of generate_image: detect the format, encode once, return the dict
G3Encoded(image_bytes, m) ==
    GenImage(image_bytes, b64encode(image_bytes), FormatOfMime(m, "jpeg"), m)
G3Return(image_bytes, mime) == G3Encoded(image_bytes, G3Mime(image_bytes, mime))

Base64DecodeFailed == GenError("Base64DecodeFailed", "BASE64_DECODE_FAILED")
\* variant: the missing payload is reported as a decode failure
ExtractionReportedAsDecode ==
    GenError("Base64DecodeFailed", "BASE64_DECODE_FAILED")
ImageExtractionFailed ==
    GenError("ImageExtractionFailed", "IMAGE_EXTRACTION_FAILED")

\* generate_image (banana, Gemini 3 Pro): the branches for a str image_data
G3Decoded(d, mime) == IF d.ok THEN G3Return(d.data, mime) ELSE Base64DecodeFailed
G3Base64(text, mime) == GenImage(<<>>, text, B64Format(text, mime), mime)
\* the text a first decode of doubly encoded data gave
G3Once(once, mime) ==
    IF _is_base64_string(once) THEN G3Base64(once, mime)
    ELSE G3Decoded(b64decode(once), mime)
G3Double(d1, mime) ==
    IF ~d1.ok THEN Base64DecodeFailed
    ELSE G3Once(decode_utf8_ignore(d1.data), mime)
G3Text(text, mime) ==
    IF _is_base64_string(text) THEN G3Base64(text, mime)
    ELSE IF startswith(text, B64B64_A) \/ startswith(text, B64B64_B)
    THEN G3Double(b64decode(text), mime)
    ELSE G3Decoded(b64decode(text), mime)
\* generate_image after the provider call returned, r the extractor's value
G3Extracted(r) ==
    IF r.tag = "none" THEN ImageExtractionFailed
    ELSE IF r.tag = "safety" THEN [tag |-> "safety_str"]
    ELSE IF r.data.t = "bytes" THEN G3Return(r.data.d, r.mime)
    ELSE G3Text(r.data.d, r.mime)
G3Finish(resp) == G3Extracted(_extract_image_from_response(resp))

\* ---------------------------------- banana: gemini_2_5_flash_image.py
DetectOfPil(image_bytes, pil) ==
    IF pil = "png" THEN "image/png"
    ELSE IF pil = "jpeg" THEN "image/jpeg"
    ELSE IF pil # "none" THEN "image/png"
    ELSE IF Prefix(image_bytes, 4) = PNG_MAGIC THEN "image/png"
    ELSE IF Prefix(image_bytes, 3) = JPEG_MAGIC THEN "image/jpeg"
    ELSE "image/png"
_detect_image_format(image_bytes) ==
    IF Len(image_bytes) < 4 THEN "image/png"
    ELSE DetectOfPil(image_bytes, PILFormat(image_bytes))

IsB64ImagePrefix(text) == startswith(text, B64_PNG4) \/ startswith(text, B64_JPEG)
HasPngOrJpegHeader(raw) ==
    Prefix(raw, 4) = PNG_MAGIC \/ Prefix(raw, 3) = JPEG_MAGIC

\* the image_bytes the loop over candidate.content.parts extracts from the
\* first inline part: [ok, bytes, n]; ok = FALSE is the Base64DecodeFailed return
Normalised(bytes, n) == [ok |-> TRUE, bytes |-> bytes, n |-> n]
G25Str(d) ==
    IF d.ok THEN Normalised(d.data, 1)
    ELSE [ok |-> FALSE, bytes |-> <<>>, n |-> 0]
\* a bytes payload raw, raw_str its text and d the decode of that text
G25RawStr(raw, raw_str, d) ==
    IF IsB64ImagePrefix(raw_str)
    THEN IF d.ok THEN Normalised(d.data, 1) ELSE Normalised(raw, 0)
    ELSE IF Len(raw) >= 4 /\ ~HasPngOrJpegHeader(raw) /\ d.ok
    THEN Normalised(d.data, 1)
    ELSE Normalised(raw, 0)
G25Raw(raw, raw_str) == G25RawStr(raw, raw_str, b64decode(raw_str))
G25Bytes(part) ==
    IF part.data.t = "str" THEN G25Str(b64decode(part.data.d))
    ELSE G25Raw(part.data.d, decode_utf8_ignore(part.data.d))

\* generate_with_gemini_2_5_flash_image after the provider call returned
G25Detected(bytes, mime) ==
    GenImage(bytes, b64encode(bytes), FormatOfMime(mime, "png"), mime)
G25Normalised(x) ==
    IF ~x.ok THEN Base64DecodeFailed
    ELSE IF x.bytes = <<>> THEN ImageExtractionFailed
    ELSE G25Detected(x.bytes, _detect_image_format(x.bytes))
G25At(parts, i) ==
    IF i = 0 THEN ImageExtractionFailed ELSE G25Normalised(G25Bytes(parts[i]))
G25Finish(resp) ==
    G25At(resp.parts, IF resp.candidates THEN FirstInline(resp.parts) ELSE 0)

\* what the extraction stage of each generator hands on: the data it settled
\* on, the MIME type the provider claimed, and the number of base64 decodes
\* whose output it kept
G25Got(x, mime) ==
    IF x.ok /\ x.bytes # <<>> THEN Got(Payload("bytes", x.bytes), mime, x.n)
    ELSE NoData
G25ExtractAt(parts, i) ==
    IF i = 0 THEN NoData ELSE G25Got(G25Bytes(parts[i]), parts[i].mime)
Extraction(g, resp) ==
    CASE g = "studio_g3" -> extract_from_response(resp)
      [] g = "banana_g3" -> _extract_image_from_response(resp)
      [] OTHER ->
           G25ExtractAt(resp.parts,
                        IF resp.candidates THEN FirstInline(resp.parts) ELSE 0)

Finish(g, resp) ==
    CASE g = "studio_g3" -> StudioFinish(resp)
      [] g = "banana_g3" -> G3Finish(resp)
      [] OTHER -> G25Finish(resp)

\* ------------------------------------------------ the environment's inputs
MaxImgLen == 102
\* a file shorter than MinImageBytes that an image decoder still opens
ShortLen == 70
ImgLens == {ShortLen} \cup (MinImageBytes..MaxImgLen)
\* body bytes of the files; a body of Damaged bytes is one the decoder rejects
Fills == {0, 65, Damaged}
RawImages == {RawImage(f, n, c) : f \in Formats, n \in ImgLens, c \in Fills}

\* the ways a provider delivers an image b: raw, base64 once or twice, each
\* as text or as bytes
Encodings(b) ==
    { Payload("bytes", b),
      Payload("str", b64encode(b)), Payload("bytes", b64encode(b)),
      Payload("str", b64encode(b64encode(b))),
      Payload("bytes", b64encode(b64encode(b))) }
Payloads == UNION {Encodings(b) : b \in RawImages}
Mimes == {"image/png", "image/jpeg"}
Finishes == {"STOP", "SAFETY"}

Responses ==
    {Resp(FALSE, "STOP", <<>>, a) : a \in BOOLEAN}
    \cup {Resp(TRUE, f, <<TextPart>>, a) : f \in Finishes, a \in BOOLEAN}
    \cup {Resp(TRUE, f, pl, a) :
            f \in Finishes, a \in BOOLEAN,
            pl \in UNION {{<<InlinePart(p, m)>>, <<TextPart, InlinePart(p, m)>>} :
                            p \in Payloads, m \in Mimes}}

\* only the banana Gemini 3 Pro extractor looks at response.parts
ResponsesFor(g) == {r \in Responses : g = "banana_g3" \/ r.parts_attr}

\* ------------------------------------------- the request to the provider
\* aspect_ratio absent from the request (None or the empty string)
NoAspect == ""
\* the aspect ratios gemini-2.5-flash-image enumerates
valid_aspect_ratios ==
    {"1:1", "2:3", "3:2", "3:4", "4:3", "4:5", "5:4", "9:16", "16:9", "21:9"}

\* reference_images[:14] / reference_images[:3]
max_reference_images(g) ==
    CASE g \in {"studio_g3", "banana_g3"} -> 14
      [] g = "banana_g25" -> 3
      [] OTHER -> 0
\* the format a reference image is saved in before it is sent
RefMime(g) == IF g = "banana_g3" THEN "image/png" ELSE "image/jpeg"
\* types.Part.from_bytes(data = the image saved, mime_type = ...)
RefPart(g, img) == [image |-> img, mime_type |-> RefMime(g)]
MinOf(a, b) == IF a < b THEN a ELSE b
\* variant: every reference image is sent
RefPartsAll(g, refs) ==
    [i \in 1..Len(refs) |-> RefPart(g, refs[i])]
\* the image parts of the request, in the order the loop appends them
RefParts(g, refs) ==
    [i \in 1..MinOf(Len(refs), max_reference_images(g)) |-> RefPart(g, refs[i])]

\* the aspect ratio in the image_config of the request, NoAspect when the
\* request carries no image_config
SentAspect(g, a) ==
    CASE g = "studio_g3" -> a
      [] g = "banana_g25" -> IF a # NoAspect /\ a \in valid_aspect_ratios
                             THEN a ELSE NoAspect
      [] OTHER -> NoAspect

NoRequest == [images |-> <<>>, aspect_ratio |-> "unsent"]
ProviderRequest(g, refs, a) ==
    [images |-> RefParts(g, refs), aspect_ratio |-> SentAspect(g, a)]

NoResult == [success |-> FALSE, error_code |-> "pending", status |-> 0,
             body |-> <<>>, format |-> "none", detail |-> "none"]
\* variant: the error is swallowed and an empty Success answered
FailureAsSuccess(code, status) ==
    [success |-> TRUE, error_code |-> "none", status |-> 200,
     body |-> <<>>, format |-> "none", detail |-> "none"]
Failure(code, status) ==
    [success |-> FALSE, error_code |-> code, status |-> status,
     body |-> <<>>, format |-> "none", detail |-> "message"]
\* variant: an answer with both the image and an error code
SuccessAndFailure(body, format) ==
    [success |-> TRUE, error_code |-> "UNKNOWN_ERROR", status |-> 200,
     body |-> body, format |-> format, detail |-> "none"]
Success(body, format) ==
    [success |-> TRUE, error_code |-> "none", status |-> 200,
     body |-> body, format |-> format, detail |-> "none"]

\* ResponseBuilder.handle_generator_error: status_map
StatusOf(code) ==
    CASE code = "TIMEOUT_ERROR" -> 504
      [] code \in {"PROXY_ERROR", "API_ERROR", "CHUNKED_ENCODING_ERROR"} -> 502
      [] code = "SAFETY_BLOCKED" -> 400
      [] OTHER -> 500

\* process_json: the image bytes streamed are the decoded image_data
Streamed(d, format) ==
    IF ~d.ok THEN Failure("BASE64_DECODE_FAILED", 200)
    ELSE Success(d.data, format)

\* what the entry point answers once the generator has returned g
EntryRespond(e, g) ==
    CASE g.tag = "text" -> Success(<<>>, "text")
      [] e = "studio:/api/banana-img-pro" ->
           IF g.tag = "error"
           THEN LET code == IF g.error_code = "none" THEN "UNKNOWN_ERROR"
                            ELSE g.error_code
                IN Failure(code, StatusOf(code))
           ELSE IF g.tag = "safety_str" THEN Failure("SAFETY_BLOCKED", 400)
           ELSE IF g.image_bytes = <<>> THEN Failure("EMPTY_IMAGE_DATA", 500)
           ELSE Success(g.image_bytes, g.format)
      [] e = "banana:/api/process" ->
           IF g.tag = "error" THEN Failure(g.error_code, 200)
           ELSE IF g.tag = "safety_str" THEN Failure("SAFETY_BLOCKED", 200)
           ELSE IF g.image_data = <<>> THEN Failure("none", 200)
           ELSE Success(g.image_data, g.format)
      [] OTHER ->
           IF g.tag = "error" THEN Failure(g.error_code, 200)
           ELSE IF g.tag = "safety_str" THEN Failure("SAFETY_BLOCKED", 200)
           ELSE IF g.image_data = <<>> THEN Failure("INVALID_IMAGE_DATA_FORMAT", 200)
           ELSE Streamed(b64decode(g.image_data), g.format)

\* "error_detail": traceback.format_exc() in the except branch of an entry
\* point: the answer carries the formatted stack of the exception
Traced(r) == [r EXCEPT !.detail = "traceback"]

\* the answer of an entry point to an empty message; NoResult when the entry
\* point does not look at the message before it dispatches
EmptyPromptAnswer(e) ==
    CASE e = "studio:/api/banana-img-pro" -> Failure("INVALID_REQUEST", 400)
      [] e = "banana:/api/process-json" ->
             Traced(Failure("PROCESS_JSON_ERROR", 200))
      [] e = "banana:/api/chat" -> Failure("HTTPException", 400)
      [] OTHER -> NoResult

\* ------------------------------------------------------------------- Init
Init ==
    /\ entry \in Entries
    /\ mode \in Modes(entry)
    /\ prompt \in Prompts
    /\ pc = "Created"
    /\ attempt = 0
    /\ retry_delay = base_retry_delay
    /\ calls = 0
    /\ errs = <<>>
    /\ sleeps = <<>>
    /\ response = None
    /\ decodes = 0
    /\ extracted = NoData
    /\ genret = None
    /\ result = NoResult
    /\ reference_images = <<>>
    /\ aspect_ratio = NoAspect
    /\ sent = NoRequest
    /\ IdleHost

\* ---------------------------------------------------------------- actions
\* The entry point parses the request, checks the message and dispatches.
ValidateRequest ==
    /\ pc = "Created"
    /\ IF ~is_valid(prompt) /\ EmptyPromptAnswer(entry) # NoResult
       THEN /\ result' = EmptyPromptAnswer(entry)
            /\ pc' = "Done"
            /\ UNCHANGED attempt
       ELSE /\ pc' = "Call"
            /\ attempt' = IF Gen = "studio_g3" THEN 1 ELSE 0
            /\ UNCHANGED result
    /\ UNCHANGED hostvars
    /\ UNCHANGED <<entry, mode, prompt, reference_images, aspect_ratio,
                   retry_delay, calls, errs, sleeps,
                   response, decodes, extracted, genret, sent>>

\* The provider call is given the request and returns a response out of R.
CallReturns(R) ==
    /\ pc = "Call"
    /\ calls' = calls + 1
    /\ sent' = ProviderRequest(Gen, reference_images, aspect_ratio)
    /\ IF IsImageGen
       THEN /\ \E r \in R : response' = r
            /\ pc' = "Extract"
            /\ UNCHANGED genret
       ELSE /\ genret' = GenText
            /\ pc' = "Respond"
            /\ UNCHANGED response
    /\ UNCHANGED hostvars
    /\ UNCHANGED <<entry, mode, prompt, reference_images, aspect_ratio,
                   attempt, retry_delay, errs, sleeps,
                   decodes, extracted, result>>

\* The provider call returns a response.
CallSucceeds == CallReturns(ResponsesFor(Gen))

\* The provider call raises and the handler sleeps and goes round the loop.
CallRetries ==
    /\ pc = "Call"
    /\ sent' = ProviderRequest(Gen, reference_images, aspect_ratio)
    /\ \E e \in Excs :
         /\ Retries(Gen, e, attempt)
         /\ errs' = Append(errs, e)
         /\ sleeps' = Append(sleeps, WaitTime(Gen, attempt, retry_delay))
    /\ calls' = calls + 1
    /\ attempt' = attempt + 1
    /\ retry_delay' = IF Gen = "studio_g3" THEN retry_delay ELSE retry_delay * 2
    /\ UNCHANGED hostvars
    /\ UNCHANGED <<entry, mode, prompt, reference_images, aspect_ratio,
                   pc, response, decodes, extracted,
                   genret, result>>

\* The provider call raises and the generator gives up with an error value.
CallRaises ==
    /\ pc = "Call"
    /\ sent' = ProviderRequest(Gen, reference_images, aspect_ratio)
    /\ \E e \in Excs :
         /\ ~Retries(Gen, e, attempt)
         /\ errs' = Append(errs, e)
         /\ genret' = IF IsImageGen
                      THEN GenError(e.name, ErrorCode(Gen, e))
                      ELSE GenText
    /\ calls' = calls + 1
    /\ pc' = "Respond"
    /\ UNCHANGED hostvars
    /\ UNCHANGED <<entry, mode, prompt, reference_images, aspect_ratio,
                   attempt, retry_delay, sleeps,
                   response, decodes, extracted, result>>

\* The generator extracts the payload from the response.
Extract ==
    /\ pc = "Extract"
    /\ extracted' = Extraction(Gen, response)
    /\ decodes' = extracted'.n
    /\ pc' = "Finish"
    /\ UNCHANGED hostvars
    /\ UNCHANGED <<entry, mode, prompt, reference_images, aspect_ratio,
                   attempt, retry_delay, calls, errs,
                   sleeps, response, genret, result, sent>>

\* The generator validates the image and returns.
FinishGen ==
    /\ pc = "Finish"
    /\ genret' = Finish(Gen, response)
    /\ pc' = "Respond"
    /\ UNCHANGED hostvars
    /\ UNCHANGED <<entry, mode, prompt, reference_images, aspect_ratio,
                   attempt, retry_delay, calls, errs,
                   sleeps, response, decodes, extracted, result, sent>>

\* The entry point turns the generator's value into its answer.
Respond ==
    /\ pc = "Respond"
    /\ result' = EntryRespond(entry, genret)
    /\ pc' = "Done"
    /\ UNCHANGED hostvars
    /\ UNCHANGED <<entry, mode, prompt, reference_images, aspect_ratio,
                   attempt, retry_delay, calls, errs,
                   sleeps, response, decodes, extracted, genret, sent>>

Next ==
    \/ ValidateRequest
    \/ CallSucceeds
    \/ CallRetries
    \/ CallRaises
    \/ Extract
    \/ FinishGen
    \/ Respond

Spec == Init /\ [][Next]_vars

(***************************************************************************)
(* The requests with reference images and an aspect ratio: the same        *)
(* handlers, run on requests that carry them, the provider answering with  *)
(* one of two responses.                                                   *)
(***************************************************************************)
MaxRefs == 15
RefLists(e) ==
    IF e = "banana:/api/process-json" THEN {<<>>}    \* reference_images=None
    ELSE {[i \in 1..n |-> i] : n \in 0..MaxRefs}
Aspects == {NoAspect, "16:9", "7:5"}
SampleResponses ==
    { Resp(TRUE, "STOP",
           <<InlinePart(Payload("bytes", RawImage("jpeg", MinImageBytes, 0)),
                        "image/jpeg")>>, TRUE),
      Resp(TRUE, "STOP", <<TextPart>>, TRUE) }

InitRequest ==
    /\ entry \in {"studio:/api/banana-img-pro", "banana:/api/process",
                  "banana:/api/process-json"}
    /\ mode \in Modes(entry) \cap {"banana", "banana_pro"}
    /\ prompt \in Prompts
    /\ reference_images \in RefLists(entry)
    /\ aspect_ratio \in Aspects
    /\ pc = "Created"
    /\ attempt = 0
    /\ retry_delay = base_retry_delay
    /\ calls = 0
    /\ errs = <<>>
    /\ sleeps = <<>>
    /\ response = None
    /\ decodes = 0
    /\ extracted = NoData
    /\ genret = None
    /\ result = NoResult
    /\ sent = NoRequest
    /\ IdleHost

CallAnswers == CallReturns(SampleResponses)

NextRequest ==
    \/ ValidateRequest
    \/ CallAnswers
    \/ CallRetries
    \/ CallRaises
    \/ Extract
    \/ FinishGen
    \/ Respond

SpecRequest == InitRequest /\ [][NextRequest]_vars

TypeOK ==
    /\ pc \in {"Created", "Call", "Extract", "Finish", "Respond", "Done"}
    /\ calls \in 0..max_retries

(***************************************************************************)
(* The provider client of the banana generators.  Both generators call     *)
(* _get_genai_client() once per request; the function reads the            *)
(* configuration from os.environ and stores what it derived back into      *)
(* os.environ.  The endpoints call the generators synchronously, so one    *)
(* call is one step.                                                       *)
(***************************************************************************)
IdleRequest ==
    /\ entry = "banana:/api/process"
    /\ mode = "banana_pro"
    /\ prompt = "a cat"
    /\ pc = "Created"
    /\ attempt = 0
    /\ retry_delay = base_retry_delay
    /\ calls = 0
    /\ errs = <<>>
    /\ sleeps = <<>>
    /\ response = None
    /\ decodes = 0
    /\ extracted = NoData
    /\ genret = None
    /\ result = NoResult
    /\ reference_images = <<>>
    /\ aspect_ratio = NoAspect
    /\ sent = NoRequest

Setenv(env, k, r) == [env EXCEPT ![k] = EnvVar(TRUE, {r})]

\* VERTEX_AI_PROJECT falls back to GOOGLE_CLOUD_PROJECT, and is stored.
EnvAfterProject(env, r) ==
    IF ~env["VERTEX_AI_PROJECT"].set /\ env["GOOGLE_CLOUD_PROJECT"].set
    THEN Setenv(env, "VERTEX_AI_PROJECT", r)
    ELSE env

\* A google-key.json found on the search path is stored as the credentials.
EnvAfterKeySearch(env, kf, r) ==
    IF ~env["GOOGLE_APPLICATION_CREDENTIALS"].set /\ kf
    THEN Setenv(env, "GOOGLE_APPLICATION_CREDENTIALS", r)
    ELSE env

\* The kind of client the configuration yields; "none" is `return None`.
\* The credentials path names the key file, which exists iff kf.
ClientKind(env, kf) ==
    LET project == env["VERTEX_AI_PROJECT"].set
        api_key == env["GOOGLE_CLOUD_API_KEY"].set
        creds   == env["GOOGLE_APPLICATION_CREDENTIALS"].set
    IN  IF creds /\ ~kf /\ ~api_key THEN "none"
        ELSE IF ~project THEN "none"
        ELSE IF ~api_key /\ ~creds THEN "none"
        ELSE IF creds /\ ~kf THEN "none"
        ELSE IF api_key THEN "api_key"
        ELSE "service_account"

\* The service-account branch stores the credentials path once more before
\* it builds the client.
EnvAfterClient(env, kind, r) ==
    IF kind = "service_account"
    THEN Setenv(env, "GOOGLE_APPLICATION_CREDENTIALS", r)
    ELSE env

\* What one call of request r does: the environment it leaves behind, the
\* client it returns, and the writers of the values its os.getenv calls read.
_get_genai_client(r, env, kf) ==
    LET e1   == EnvAfterProject(env, r)
        e2   == EnvAfterKeySearch(e1, kf, r)
        kind == ClientKind(e2, kf)
    IN  [environ |-> EnvAfterClient(e2, kind, r),
         client  |-> kind,
         saw     |-> env["VERTEX_AI_PROJECT"].by
                       \cup env["GOOGLE_CLOUD_PROJECT"].by
                       \cup e1["GOOGLE_CLOUD_API_KEY"].by
                       \cup e1["GOOGLE_APPLICATION_CREDENTIALS"].by]

InitClient ==
    /\ IdleRequest
    /\ environ \in [EnvKeys -> {EnvVar(b, {}) : b \in BOOLEAN}]
    /\ key_file \in BOOLEAN
    /\ clients = [r \in Requests |-> NoClient]
    /\ IdleSession
    /\ IdleOptimizer

\* Request r reaches the generator's `client = _get_genai_client()`.
GetClient(r) ==
    /\ clients[r].pc = "waiting"
    /\ LET got == _get_genai_client(r, environ, key_file)
       IN  /\ environ' = got.environ
           /\ clients' = [clients EXCEPT ![r] =
                            [pc |-> "called", client |-> got.client,
                             saw |-> got.saw]]
    /\ UNCHANGED key_file
    /\ UNCHANGED <<sessvars, optvars>>
    /\ UNCHANGED reqvars

NextClient == \E r \in Requests : GetClient(r)

SpecClient == InitClient /\ [][NextClient]_vars

(***************************************************************************)
(* The session functions of database.py, called directly as the session    *)
(* persistence test does.  session_token is the table's primary key, so    *)
(* an INSERT for a token that has a row raises, and create_session         *)
(* returns False.                                                          *)
(***************************************************************************)
create_session(tbl, t, u, exp) ==
    IF tbl[t] # NoRow
    THEN [ok |-> FALSE, tbl |-> tbl]
    ELSE [ok |-> TRUE, tbl |-> [tbl EXCEPT ![t] = Row(u, exp)]]

get_user_by_id(u) == IF u \in Users THEN u ELSE NoUser

db_get_user_from_session(tbl, t, n) ==
    IF tbl[t] = NoRow \/ ~(tbl[t].expires_at > n)
    THEN NoUser
    ELSE get_user_by_id(tbl[t].user_id)

delete_session_kept(tbl, t) == tbl

delete_session(tbl, t) == [tbl EXCEPT ![t] = NoRow]

Tick ==
    /\ now < MaxTime
    /\ now' = now + 1
    /\ UNCHANGED <<sessions, user_sessions, answer, issued, closed>>
    /\ UNCHANGED <<reqvars, clientvars, optvars>>

DbCreate(t, u, exp) ==
    /\ LET made == create_session(sessions, t, u, exp)
       IN  /\ sessions' = made.tbl
           /\ issued' = [issued EXCEPT ![t] = Issued("create", u, exp, made.ok)]
           /\ answer' = Answer("create_session", t, u,
                               IF made.ok THEN 1 ELSE 0, now)
    /\ closed' = closed \ {t}
    /\ UNCHANGED <<user_sessions, now>>
    /\ UNCHANGED <<reqvars, clientvars, optvars>>

DbLookup(t) ==
    /\ answer' = Answer("db_lookup", t,
                        db_get_user_from_session(sessions, t, now), 0, now)
    /\ UNCHANGED <<sessions, user_sessions, now, issued, closed>>
    /\ UNCHANGED <<reqvars, clientvars, optvars>>

DbDelete(t) ==
    /\ sessions' = delete_session(sessions, t)
    /\ closed' = closed \cup {t}
    /\ answer' = Answer("delete_session", t, NoUser, 1, now)
    /\ UNCHANGED <<user_sessions, now, issued>>
    /\ UNCHANGED <<reqvars, clientvars, optvars>>

InitDatabase ==
    /\ IdleRequest
    /\ IdleClient
    /\ IdleSession
    /\ IdleOptimizer

NextDatabase ==
    \/ Tick
    \/ \E t \in FreshTokens, u \in Users, exp \in 1..(MaxTime + SessionTTL) :
          DbCreate(t, u, exp)
    \/ \E t \in FreshTokens : DbLookup(t)
    \/ \E t \in FreshTokens : DbDelete(t)

SpecDatabase == InitDatabase /\ [][NextDatabase]_vars

(***************************************************************************)
(* The auth layer of routes/auth.py and routes/admin.py.  The handlers     *)
(* are coroutines that never await, so each runs as one step.              *)
(***************************************************************************)
\* Database first; a token the database does not answer for is looked up
\* in user_sessions, which holds no expiry.
get_user_from_session(tbl, mem, t, n) ==
    LET user == db_get_user_from_session(tbl, t, n)
    IN  IF user # NoUser THEN user
        ELSE IF mem[t] = NoUser THEN NoUser
        ELSE IF mem[t] = ManagerId THEN ManagerId
        ELSE get_user_by_id(mem[t])

AccountOf(u) == IF u = ManagerId THEN "manager" ELSE u

IsManagerToken(mem, t) == t = "manager_user" \/ mem[t] = ManagerId

MemoryKeptAtLogout(mem, t) == mem

MemoryAfterLogout(mem, t) == [mem EXCEPT ![t] = NoUser]

\* POST /login.  u is the account's user id, pw_ok whether the password
\* matched; the token is a fresh secrets.token_urlsafe(32): one no session
\* was issued for and no caller has presented.
login(u, pw_ok) ==
    /\ IF ~pw_ok
       THEN /\ answer' = Answer("login", "", NoUser, 401, now)
            /\ UNCHANGED <<sessions, user_sessions, issued>>
       ELSE \E t \in FreshTokens :
              /\ issued[t].kind = "none"
              /\ t \notin closed
              /\ LET made == create_session(sessions, t, u, now + SessionTTL)
                 IN  /\ sessions' = made.tbl
                     /\ issued' = [issued EXCEPT ![t] =
                                     Issued(AccountOf(u), u, now + SessionTTL,
                                            made.ok)]
              /\ user_sessions' = [user_sessions EXCEPT ![t] = u]
              /\ answer' = Answer("login", t, u, 200, now)
    /\ UNCHANGED <<now, closed>>
    /\ UNCHANGED <<reqvars, clientvars, optvars>>

\* POST /logout.
logout(t) ==
    /\ sessions' = delete_session(sessions, t)
    /\ user_sessions' = MemoryAfterLogout(user_sessions, t)
    /\ closed' = closed \cup {t}
    /\ answer' = Answer("logout", t, NoUser, 200, now)
    /\ UNCHANGED <<now, issued>>
    /\ UNCHANGED <<reqvars, clientvars, optvars>>

\* Any endpoint that resolves its caller with get_user_from_session.
AuthLookup(t) ==
    /\ answer' = Answer("lookup", t,
                        get_user_from_session(sessions, user_sessions, t, now),
                        0, now)
    /\ UNCHANGED <<sessions, user_sessions, now, issued, closed>>
    /\ UNCHANGED <<reqvars, clientvars, optvars>>

\* POST /me.
get_current_user(t) ==
    /\ LET user == get_user_from_session(sessions, user_sessions, t, now)
       IN  answer' =
             IF IsManagerToken(user_sessions, t)
             THEN Answer("me", t, ManagerId, 200, now)
             ELSE IF user = NoUser
             THEN Answer("me", t, NoUser, 401, now)
             ELSE Answer("me", t, user, 200, now)
    /\ UNCHANGED <<sessions, user_sessions, now, issued, closed>>
    /\ UNCHANGED <<reqvars, clientvars, optvars>>

\* The guard of every admin endpoint.
check_manager_permission(t) ==
    /\ LET user == get_user_from_session(sessions, user_sessions, t, now)
       IN  answer' =
             IF IsManagerToken(user_sessions, t)
             THEN Answer("check_manager", t, ManagerId, 200, now)
             ELSE IF user = NoUser
             THEN Answer("check_manager", t, NoUser, 401, now)
             ELSE IF AccountOf(user) # "manager"
             THEN Answer("check_manager", t, user, 403, now)
             ELSE Answer("check_manager", t, user, 200, now)
    /\ UNCHANGED <<sessions, user_sessions, now, issued, closed>>
    /\ UNCHANGED <<reqvars, clientvars, optvars>>

InitSession ==
    /\ IdleRequest
    /\ IdleClient
    /\ IdleSession
    /\ IdleOptimizer

NextSession ==
    \/ Tick
    \/ \E u \in Users \cup {ManagerId}, pw_ok \in BOOLEAN : login(u, pw_ok)
    \/ \E t \in Tokens : logout(t)
    \/ \E t \in Tokens : AuthLookup(t)
    \/ \E t \in Tokens : get_current_user(t)
    \/ \E t \in Tokens : check_manager_permission(t)

SpecSession == InitSession /\ [][NextSession]_vars

(***************************************************************************)
(* optimize_prompt of the studio back end.  Text is a sequence of code     *)
(* points.  After the text model has answered, the function picks a line   *)
(* of the answer, falls back to the original prompt when the line is no    *)
(* prompt, and cuts the outcome to max_limit characters or words.          *)
(***************************************************************************)
max_limit == 150

MaxWords == 152

Lowest(S) == CHOOSE x \in S : \A y \in S : x <= y

Highest(S) == CHOOSE x \in S : \A y \in S : x >= y

IsChineseChar(c) == c >= 19968 /\ c <= 40959

\* \w of a str pattern, for the characters that occur here
IsWordChar(c) ==
    \/ c >= 97 /\ c <= 122
    \/ c >= 65 /\ c <= 90
    \/ c >= 48 /\ c <= 57
    \/ c = 95
    \/ IsChineseChar(c)

lower(s) == [i \in 1..Len(s) |-> IF s[i] >= 65 /\ s[i] <= 90 THEN s[i] + 32 ELSE s[i]]

strip(s) ==
    LET P == {i \in 1..Len(s) : s[i] \notin {32, 10}}
    IN  IF P = {} THEN <<>> ELSE SubSeq(s, Lowest(P), Highest(P))

\* str.rfind: the highest index (from 0) at which w occurs in s, or -1
rfind(s, w) ==
    LET P == {i \in 0..(Len(s) - Len(w)) : SubSeq(s, i + 1, i + Len(w)) = w}
    IN  IF P = {} THEN -1 ELSE Highest(P)

count(s, c) == Cardinality({i \in 1..Len(s) : s[i] = c})

Keywords ==
    { <<25552, 31034, 35789>>, <<20248, 21270>>,
      <<112, 114, 111, 109, 112, 116>>,
      <<111, 112, 116, 105, 109, 105, 122, 101, 100>>,
      <<111, 114, 105, 103, 105, 110, 97, 108>>,
      <<21407, 22987>>, <<20197, 19979, 26159>>, <<22914, 19979>>,
      <<97, 110, 115, 119, 101, 114>> }

LineStarts(s) == {i \in 1..Len(s) : i = 1 \/ s[i - 1] = 10}

LineAt(s, i) ==
    LET E == {k \in i..Len(s) : s[k] = 10}
    IN  strip(SubSeq(s, i, IF E = {} THEN Len(s) ELSE Lowest(E) - 1))

IsPromptLine(line) ==
    /\ Len(line) > 5
    /\ ~\E k \in Keywords : rfind(lower(line), k) >= 0

\* a multi-line answer: the first line that reads like a prompt, else the
\* first line when it is long enough, else the answer as it is
FirstParagraph(s) ==
    IF count(s, 10) = 0 THEN s
    ELSE LET G == {i \in LineStarts(s) : IsPromptLine(LineAt(s, i))}
         IN  IF G # {} THEN LineAt(s, Lowest(G))
             ELSE IF Len(LineAt(s, 1)) > 10 THEN LineAt(s, 1)
             ELSE s

\* too short an answer, or one with more than two [ placeholders, gives
\* way to the original prompt
OrOriginal(o, p) ==
    LET v == IF Len(strip(o)) < 3 THEN p ELSE o
    IN  IF count(v, 91) > 0 /\ count(v, 93) > 0 /\ count(v, 91) > 2
        THEN p
        ELSE v

is_chinese(s) ==
    /\ Len(s) > 0
    /\ 10 * Cardinality({i \in 1..Len(s) : IsChineseChar(s[i])}) > 3 * Len(s)

\* where the matches of \b\w+\b begin
WordStarts(s) ==
    {i \in 1..Len(s) : IsWordChar(s[i]) /\ (i = 1 \/ ~IsWordChar(s[i - 1]))}

WordCount(s) == Cardinality(WordStarts(s))

WordAt(s, i) ==
    SubSeq(s, i, Lowest({k \in i..Len(s) :
                           k = Len(s) \/ ~IsWordChar(s[k + 1])}))

Puncts == <<12290, 65292, 12289, 65307, 65281, 65311, 46, 44, 59, 33, 63>>

\* Chinese: the first max_limit characters, cut after the last occurrence
\* of the first punctuation mark found beyond 70 % of the limit
TruncateChars(s) ==
    LET truncated == SubSeq(s, 1, max_limit)
        at == [j \in 1..Len(Puncts) |-> rfind(truncated, <<Puncts[j]>>)]
        hits == {j \in 1..Len(Puncts) : 10 * at[j] > 7 * max_limit}
    IN  IF hits = {} THEN truncated
        ELSE SubSeq(truncated, 1, at[Lowest(hits)] + 1)

\* English: the text up to the last place where the max_limit-th word
\* occurs in it, and the blanks and punctuation that follow
TruncateWords(s) ==
    LET starts == WordStarts(s)
        first == CHOOSE i \in starts :
                    Cardinality({j \in starts : j <= i}) = max_limit
        last_word == WordAt(s, first)
        next == rfind(s, last_word) + Len(last_word)
        stop == Lowest({k \in next..Len(s) :
                          k = Len(s) \/ s[k + 1] \notin {32, 46, 44, 59, 33, 63}})
    IN  SubSeq(s, 1, stop)

LimitLength(s) ==
    IF is_chinese(s)
    THEN IF Len(s) > max_limit THEN TruncateChars(s) ELSE s
    ELSE IF WordCount(s) > max_limit THEN TruncateWords(s) ELSE s

optimize_prompt(text, p) ==
    LimitLength(OrOriginal(FirstParagraph(strip(text)), p))

\* ------------------------------------------- the text model's answers
\* n one-letter words separated by blanks; the letters follow a pattern
Letter(pat, i) ==
    CASE pat = "same" -> 97
      [] pat = "marked" -> IF i = max_limit THEN 98 ELSE 97
      [] OTHER -> IF i % 2 = 0 THEN 98 ELSE 97

EnglishText(n, pat) ==
    [k \in 1..(2 * n - 1) |->
        IF k % 2 = 1 THEN Letter(pat, (k + 1) \div 2) ELSE 32]

\* n Chinese characters, the p-th of them a full stop when p > 0
ChineseText(n, p) == [k \in 1..n |-> IF k = p THEN 12290 ELSE 20013]

OptLens == {1, 2} \cup ((max_limit - 1)..MaxWords)

Texts ==
    {EnglishText(n, pat) : n \in OptLens, pat \in {"same", "marked", "alternate"}}
    \cup {ChineseText(n, p) : n \in OptLens, p \in {0, 100, 120}}
    \cup {<<91, 97, 93, 91, 98, 93, 91, 97, 93>>}

\* nothing, or a second line, after the text
Tails == {<<>>, <<10, 97, 98>>}

OptPrompts == {<<97, 32, 98>>, EnglishText(max_limit + 1, "same")}

InitOptimizer ==
    /\ IdleRequest
    /\ IdleClient
    /\ IdleSession
    /\ opt_prompt \in OptPrompts
    /\ response_text \in {t \o tail : t \in Texts, tail \in Tails}
    /\ opt_attempt = 0
    /\ optimized_prompt = <<>>
    /\ opt_pc = "Call"

\* generate_content answered: the answer is cleaned, cut and returned.
OptimizeAnswers ==
    /\ opt_pc = "Call"
    /\ optimized_prompt' = optimize_prompt(response_text, opt_prompt)
    /\ opt_pc' = "Optimized"
    /\ UNCHANGED <<opt_prompt, response_text, opt_attempt>>
    /\ UNCHANGED <<reqvars, clientvars, sessvars>>

\* ServiceUnavailable / RetryError with attempts left: sleep and call again.
OptimizeRetries ==
    /\ opt_pc = "Call"
    /\ opt_attempt < max_retries - 1
    /\ opt_attempt' = opt_attempt + 1
    /\ UNCHANGED <<opt_prompt, response_text, optimized_prompt, opt_pc>>
    /\ UNCHANGED <<reqvars, clientvars, sessvars>>

\* Any other exception, or the last attempt failing: the original prompt.
OptimizeFails ==
    /\ opt_pc = "Call"
    /\ optimized_prompt' = opt_prompt
    /\ opt_pc' = "Original"
    /\ UNCHANGED <<opt_prompt, response_text, opt_attempt>>
    /\ UNCHANGED <<reqvars, clientvars, sessvars>>

NextOptimizer == OptimizeAnswers \/ OptimizeRetries \/ OptimizeFails

SpecOptimizer == InitOptimizer /\ [][NextOptimizer]_vars

(***************************************************************************)
(* Properties                                                              *)
(***************************************************************************)
\* the provider call has returned for good: the generator is past its loop
AfterCall == pc \in {"Extract", "Finish", "Respond", "Done"} /\ calls > 0
\* the extractor has run on the response
AfterExtract == pc \in {"Finish", "Respond", "Done"} /\ response # None

\* C1: a response whose finish reason reports a safety rejection makes the
\* extractor return the SafetyBlocked marker and extract no payload, also when
\* a part of the response carries an inline image.
C1_SafetyBlockedBeforeExtraction ==
    (/\ AfterExtract
     /\ Gen \in {"studio_g3", "banana_g3"}
     /\ response.candidates
     /\ IsSafetyFinish(response.finish_reason))
    => (extracted = SafetyBlockedRet /\ decodes = 0)

\* C2: when the provider call fails k times with an exception the loop retries
\* and would then succeed, the loop hands on a response exactly when
\* k < maxRetries, and the provider was called min(k + 1, maxRetries) times
\* (3 in the studio generator, 1 where the retry decorator is disabled).
C2_RetryBudget ==
    (/\ Gen \in {"studio_g3", "banana_g3"}
     /\ AfterCall
     /\ \A n \in 1..Len(errs) : Retryable(Gen, errs[n]) \/ Gen = "banana_g3")
    => /\ (response # None) <=> (Len(errs) < MaxRetriesOf(Gen))
       /\ calls = IF Len(errs) + 1 < MaxRetriesOf(Gen)
                  THEN Len(errs) + 1 ELSE MaxRetriesOf(Gen)
       /\ (pc = "Done" /\ result.success) => response # None

\* two retried failures, then a response that becomes the image answered
C2_Witness ==
    /\ pc = "Done" /\ Gen = "studio_g3"
    /\ Len(errs) = 2 /\ calls = 3 /\ result.success

\* C3 as stated: a provider call that times out is tried 3 times and the
\* request ends in the Timeout failure.
C3_TimeoutTriedThreeTimes ==
    (/\ pc = "Done"
     /\ Gen \in {"studio_g3", "banana_g25"}
     /\ errs # <<>>
     /\ \A n \in 1..Len(errs) : errs[n].kind = "Timeout"
     /\ response = None)
    => (calls = max_retries /\ result.error_code = "TIMEOUT_ERROR")

\* C3: a timeout of the provider call is not retried: the call is made once,
\* nothing is slept, and the request ends in a failure, with the code
\* TIMEOUT_ERROR where the generator names one (banana Gemini 2.5).
C3_TimeoutNotRetried ==
    (/\ AfterCall
     /\ Gen \in {"studio_g3", "banana_g25"}
     /\ errs # <<>>
     /\ errs[1].kind = "Timeout")
    => /\ calls = 1 /\ sleeps = <<>> /\ response = None
       /\ pc = "Done" =>
            /\ ~result.success
            /\ Gen = "banana_g25" => result.error_code = "TIMEOUT_ERROR"
            /\ Gen = "studio_g3" => result.error_code = "UNKNOWN_ERROR"

C3_Witness ==
    /\ pc = "Done" /\ Gen = "studio_g3"
    /\ Len(errs) = 1 /\ errs[1].kind = "Timeout" /\ ~result.success

\* C4 as stated: a Quota or Auth failure of the provider call is never
\* retried, the provider is called exactly once.
C4_QuotaAuthTerminal ==
    (/\ Gen = "studio_g3"
     /\ errs # <<>>
     /\ errs[1].kind \in {"Quota", "Auth"})
    => (calls = 1 /\ sleeps = <<>>)

\* C4: an Auth failure is terminal: one call, no sleep, a failure answered.  A
\* failure whose message names the quota is handled as rate limiting: it is
\* retried with backoff while attempts are left, so the request ends after one
\* call only when the budget of attempts is 1.
C4_AuthTerminalQuotaRetried ==
    (Gen = "studio_g3" /\ AfterCall /\ errs # <<>>)
    => /\ errs[1].kind = "Auth" =>
            /\ calls = 1 /\ sleeps = <<>> /\ response = None
            /\ pc = "Done" => ~result.success
       /\ errs[1].kind = "Quota" =>
            /\ calls >= 2 /\ sleeps # <<>> /\ sleeps[1] = base_retry_delay
            /\ (response = None /\ errs[Len(errs)].kind = "Quota")
                 => Len(errs) = max_retries

\* a quota failure on every attempt: three calls, then the failure
C4_Witness ==
    /\ pc = "Done" /\ Gen = "studio_g3"
    /\ Len(errs) = max_retries
    /\ \A n \in 1..Len(errs) : errs[n].kind = "Quota"
    /\ calls = max_retries /\ ~result.success

\* C5: when the first failure of the provider call is one the generator does
\* not retry, the provider call is made exactly once.
C5_NonRetryableCalledOnce ==
    (/\ Gen \in {"studio_g3", "banana_g3"}
     /\ errs # <<>>
     /\ ~Retryable(Gen, errs[1]))
    => (calls = 1 /\ Len(errs) = 1 /\ response = None /\ AfterCall)

C5_Witness ==
    /\ pc = "Done" /\ Gen = "studio_g3"
    /\ Len(errs) = 1 /\ errs[1].kind = "SafetyBlocked" /\ calls = 1

\* C6: the loop sleeps only between a retried failure and the next attempt:
\* one sleep per failure that is followed by another attempt, the first of
\* base seconds and each later one twice the one before (2, 4), none after a
\* failure that is not retried and none after the last attempt.
C6_BackoffBetweenAttempts ==
    Gen \in {"studio_g3", "banana_chat", "studio_chat"}
    => /\ Len(sleeps) = (IF pc = "Call" \/ calls = 0 THEN calls ELSE calls - 1)
       /\ Len(sleeps) <= max_retries - 1
       /\ \A n \in 1..Len(sleeps) :
            /\ Retryable(Gen, errs[n])
            /\ sleeps[n] = IF n = 1 THEN base_retry_delay ELSE 2 * sleeps[n - 1]
       /\ (AfterCall /\ Len(errs) > Len(sleeps)) =>
            \/ ~Retryable(Gen, errs[Len(errs)])
            \/ calls = max_retries

\* the last permitted attempt failed: two sleeps, 2 s and 4 s, none after it
C6_Witness ==
    /\ pc = "Done" /\ Gen = "studio_g3"
    /\ sleeps = <<2, 4>> /\ Len(errs) = 3

\* C7: on an entry point that generates images, a request with an empty
\* prompt ends in a failure and the provider is never called for it.
C7_EmptyPromptRejected ==
    (IsImageGen /\ prompt = "" /\ pc # "Created")
    => (pc = "Done" /\ calls = 0 /\ ~result.success)

\* C8: a payload that is base64(base64(B)) for PNG bytes B is decoded twice
\* and the extractor hands on exactly B.
C8_DoubleBase64Decoded ==
    (/\ AfterExtract
     /\ Gen \in {"banana_g3", "studio_g3"}
     /\ response.candidates
     /\ FirstInline(response.parts) # 0)
    => LET payload == response.parts[FirstInline(response.parts)].data IN
       \A B \in RawImages :
          (startswith(B, PNG_MAGIC) /\ payload.d = b64encode(b64encode(B)))
          => (extracted.data = Payload("bytes", B) /\ decodes = 2)

\* C9: a payload that is base64(B) for JPEG bytes B, delivered as text or as
\* ASCII bytes (it starts with "/9j/"), is decoded exactly once and the bytes
\* handed on are B; when B is a whole image of at least MinImageBytes bytes
\* the generator returns B as a jpeg.
C9_SingleBase64Jpeg ==
    (/\ AfterExtract
     /\ Gen \in {"studio_g3", "banana_g25"}
     /\ response.candidates
     /\ FirstInline(response.parts) # 0)
    => LET payload == response.parts[FirstInline(response.parts)].data IN
       \A B \in RawImages :
          (startswith(B, JPEG_MAGIC) /\ payload.d = b64encode(B))
          => /\ startswith(payload.d, B64_JPEG)
             /\ extracted.data = Payload("bytes", B)
             /\ decodes = 1
             /\ (/\ pc \in {"Respond", "Done"}
                 /\ PILFormat(B) = "jpeg" /\ Len(B) >= MinImageBytes) =>
                  /\ genret.tag = "image"
                  /\ genret.image_bytes = B
                  /\ genret.format = "jpeg"

\* base64 of a JPEG delivered as ASCII bytes, decoded once to the JPEG
C9_Witness ==
    /\ pc = "Done" /\ Gen = "banana_g25"
    /\ response # None /\ response.candidates
    /\ FirstInline(response.parts) # 0
    /\ LET payload == response.parts[FirstInline(response.parts)].data IN
         /\ payload.t = "bytes"
         /\ startswith(payload.d, B64_JPEG)
         /\ b64encode(extracted.data.d) = payload.d
    /\ startswith(extracted.data.d, JPEG_MAGIC)
    /\ decodes = 1

\* C10: a payload delivered as bytes that begin with the signature of a JPEG,
\* PNG, GIF or WEBP file is handed on unchanged, no base64 decode applied.
C10_RawBytesPassThrough ==
    (/\ AfterExtract
     /\ Gen \in {"studio_g3", "banana_g25"}
     /\ response.candidates
     /\ FirstInline(response.parts) # 0)
    => LET payload == response.parts[FirstInline(response.parts)].data IN
       (payload.t = "bytes" /\ _is_image_magic(payload.d))
       => (extracted.data = payload /\ decodes = 0)

(* C11: every Success delivered as a byte stream carries raw binary image
   data: the body begins with a recognised magic signature (JPEG, PNG, GIF,
   WEBP), never with base64 text, and the reported format is the format of
   that signature. *)
C11_SuccessBytesAreRawImage ==
    (pc = "Done" /\ IsImageGen /\ result.success
       /\ entry \in {"studio:/api/banana-img-pro", "banana:/api/process-json"})
    => \/ startswith(result.body, JPEG_MAGIC) /\ result.format = "jpeg"
       \/ startswith(result.body, PNG_MAGIC) /\ result.format = "png"
       \/ (startswith(result.body, GIF87) \/ startswith(result.body, GIF89))
            /\ result.format = "gif"
       \/ startswith(result.body, RIFF) /\ result.format = "webp"

(* C12: when the MIME type the provider claimed is not the format detected
   from the image bytes, the detected format is the one reported, and the
   generator's verdict (image or error) is the one it gives for the same
   response with the matching MIME type: the mismatch fails nothing. *)
C12_DetectedFormatWins ==
    (/\ pc = "Done" /\ IsImageGen
     /\ response # None /\ extracted.tag = "data")
    => LET image == IF ~result.success THEN <<>>
                    ELSE IF entry = "banana:/api/process"
                    THEN b64decode(result.body).data
                    ELSE result.body
           detected == PILFormat(image)
           relabel(m) ==
               [response EXCEPT !.parts =
                  [i \in DOMAIN response.parts |->
                     IF response.parts[i].inline
                     THEN [response.parts[i] EXCEPT !.mime = m]
                     ELSE response.parts[i]]]
       IN /\ (detected \in {"png", "jpeg"}
                /\ FormatOfMime(extracted.mime, "none") # detected)
             => result.format = detected
          /\ \A m \in Mimes : Finish(Gen, relabel(m)).tag = genret.tag

\* a JPEG claimed to be image/png is answered as a jpeg
C12_Witness ==
    /\ pc = "Done" /\ Gen \in {"banana_g3", "banana_g25"}
    /\ extracted.tag = "data" /\ extracted.mime = "image/png"
    /\ result.success /\ result.format = "jpeg"
    /\ entry = "banana:/api/process-json"
    /\ PILFormat(result.body) = "jpeg"

(* C13: image bytes shorter than MinImageBytes (100) that the extraction
   handed on always make the generator return an InvalidImage error. *)
C13_ShortBytesInvalidImage ==
    (/\ pc \in {"Respond", "Done"} /\ IsImageGen
     /\ response # None /\ extracted.tag = "data"
     /\ extracted.data.t = "bytes"
     /\ Len(extracted.data.d) < MinImageBytes)
    => (genret.tag = "error" /\ genret.error_type = "InvalidImage")

(* C14: for image bytes of at least MinImageBytes (100) bytes the format the
   detector reports is the one the image decoder recognises; when the decoder
   recognises none, the one the magic-byte table (JPEG, PNG, GIF, WEBP) gives;
   when the table gives none, png. *)
C14_DetectorOrder ==
    (/\ pc \in {"Respond", "Done"}
     /\ Gen \in {"studio_g3", "banana_g25"}
     /\ genret.tag = "image"
     /\ Len(genret.image_bytes) >= MinImageBytes)
    => LET b == genret.image_bytes
           table == IF startswith(b, JPEG_MAGIC) THEN "jpeg"
                    ELSE IF startswith(b, PNG_MAGIC) THEN "png"
                    ELSE IF startswith(b, GIF87) \/ startswith(b, GIF89)
                         THEN "gif"
                    ELSE IF startswith(b, RIFF) THEN "webp"
                    ELSE "none"
       IN genret.format = IF PILFormat(b) # "none" THEN PILFormat(b)
                          ELSE IF table # "none" THEN table
                          ELSE "png"

(* C15: when the bytes the extraction handed on do not decode as an image,
   the generator returns an InvalidImage error and the request does not end
   in a Success. *)
C15_UndecodableBytesFail ==
    (/\ pc = "Done" /\ IsImageGen
     /\ response # None /\ extracted.tag = "data"
     /\ extracted.data.t = "bytes"
     /\ PILFormat(extracted.data.d) = "none")
    => /\ genret.tag = "error" /\ genret.error_type = "InvalidImage"
       /\ ~result.success

(* C16 (as stated): when no part of the provider response carries an inline
   payload and the response was not blocked, the generator returns an error
   whose kind is ImageExtractionFailed and the request ends in a Failure. *)
C16_NoPayloadExtractionFailed ==
    (/\ pc \in {"Respond", "Done"} /\ IsImageGen
     /\ response # None /\ response.finish_reason = "STOP"
     /\ FirstInline(response.parts) = 0)
    => /\ genret.tag = "error"
       /\ genret.error_type = "ImageExtractionFailed"
       /\ pc = "Done" => ~result.success

(* C16 (amended): when no part of the provider response carries an inline
   payload, the request ends in a Failure; the banana generators name it
   ImageExtractionFailed (code IMAGE_EXTRACTION_FAILED), the studio generator
   names it NoImageInResponse and gives no code, so that the studio entry
   point answers UNKNOWN_ERROR. *)
C16_NoPayloadFails ==
    (/\ pc \in {"Respond", "Done"} /\ IsImageGen
     /\ response # None /\ response.finish_reason = "STOP"
     /\ FirstInline(response.parts) = 0)
    => /\ genret.tag = "error"
       /\ genret.error_type = IF Gen = "studio_g3" THEN "NoImageInResponse"
                              ELSE "ImageExtractionFailed"
       /\ pc = "Done" =>
            /\ ~result.success
            /\ result.error_code = IF Gen = "studio_g3" THEN "UNKNOWN_ERROR"
                                   ELSE "IMAGE_EXTRACTION_FAILED"

\* a text-only answer of the provider ended in the extraction failure
C16_Witness ==
    /\ pc = "Done" /\ Gen = "banana_g25"
    /\ response # None /\ response.finish_reason = "STOP"
    /\ response.parts = <<TextPart>>
    /\ result.error_code = "IMAGE_EXTRACTION_FAILED"

(* C17: of an ordered list of n reference images the provider is sent
   exactly the first min(n, M), in their order, M being 14 for the Gemini 3
   Pro generators and 3 for Gemini 2.5 Flash Image; a list longer than M makes
   no error: the request whose provider call returns an image succeeds. *)
C17_FirstMReferenceImagesSent ==
    (calls > 0 /\ IsImageGen)
    => LET M == IF Gen = "banana_g25" THEN 3 ELSE 14
           n == Len(reference_images)
           k == IF n < M THEN n ELSE M
       IN /\ Len(sent.images) = k
          /\ \A i \in 1..k : sent.images[i].image = reference_images[i]
          /\ (/\ pc = "Done" /\ response # None
              /\ FirstInline(response.parts) # 0)
             => result.success

\* fifteen reference images, fourteen sent, and the request succeeded
C17_Witness ==
    /\ pc = "Done" /\ Gen \in {"studio_g3", "banana_g3"}
    /\ Len(reference_images) > 14
    /\ Len(sent.images) = 14
    /\ sent.images[14].image = reference_images[14]
    /\ result.success

(* C18: a request that passes validation and whose mode is not a registered
   mode ends in a ConfigurationError Failure, no provider having been
   called. *)
C18_UnregisteredModeRejected ==
    (pc = "Done" /\ is_valid(prompt) /\ mode \notin RegisteredModes)
    => /\ ~result.success
       /\ result.error_code = "ConfigurationError"
       /\ calls = 0

(* C19: the aspect ratio a provider call is given is never a value outside
   the provider's enumerated set: the call carries a member of the set, or no
   aspect ratio at all (the provider then applies its default). *)
C19_AspectRatioEnumerated ==
    (calls > 0 /\ IsImageGen)
    => sent.aspect_ratio \in valid_aspect_ratios \cup {NoAspect}

(* C20: every request yields exactly one result: there is an answer exactly
   when the handler has returned (Done), and
   the answer is either a Success (the image bytes and their format, no error
   code) or a Failure (an error code, no image): never both populated, never
   neither. *)
C20_OneVariant ==
    /\ (pc = "Done") <=> (result # NoResult)
    /\ result # NoResult =>
         \/ /\ result.success /\ result.status = 200
            /\ result.error_code = "none"
            /\ result.format # "none"
            /\ IsImageGen => result.body # <<>>
         \/ /\ ~result.success
            /\ result.error_code \notin {"none", "pending"}
            /\ result.body = <<>> /\ result.format = "none"
\* the studio handler answered a Success that carries an image
C20_Witness ==
    /\ pc = "Done" /\ entry = "studio:/api/banana-img-pro"
    /\ calls > 0 /\ result.success
    /\ result.body # <<>> /\ result.error_code = "none"

(* C21: within one request the stages run one after another in the order
   validation and dispatch (Created), provider call with its retries (Call),
   extraction (Extract), format resolution and image validation (Finish),
   completion (Respond, Done); a stage that fails sends the request to its
   completion with a Failure and no later stage runs on the way. *)
C21_StagesInOrder ==
    [][ /\ \/ pc = "Created" /\ pc' \in {"Call", "Done"}
           \/ pc = "Call" /\ pc' \in {"Call", "Extract", "Respond"}
           \/ pc = "Extract" /\ pc' = "Finish"
           \/ pc = "Finish" /\ pc' = "Respond"
           \/ pc = "Respond" /\ pc' = "Done"
        /\ (pc = "Created" /\ pc' = "Done")
             => (~result'.success /\ calls' = 0 /\ response' = None)
        /\ (pc = "Call" /\ pc' = "Respond" /\ IsImageGen)
             => /\ errs' # errs /\ genret'.tag = "error"
                /\ response' = None /\ extracted' = NoData /\ decodes' = 0
        /\ (pc = "Finish" /\ extracted.tag # "data")
             => genret'.tag # "image"
        /\ (pc = "Respond" /\ genret.tag \notin {"image", "text"})
             => ~result'.success
      ]_vars

\* the provider call of the studio generator failed for good and the request
\* was completed with a Failure, nothing having been extracted
C21_Witness ==
    /\ pc = "Done" /\ Gen = "studio_g3"
    /\ errs # <<>> /\ response = None
    /\ extracted = NoData /\ genret.tag = "error"
    /\ ~result.success

(* C22 (as stated): an exception of the provider call never escapes: when
   the last call of a request raised, the request is answered with a Failure
   that carries an error code. *)
C22_ExceptionsBecomeFailures ==
    (pc = "Done" /\ calls > 0 /\ Len(errs) = calls)
    => (~result.success /\ result.error_code \notin {"none", "pending"})

(* C22 (amended): when the last provider call of a request raised, the
   request is still answered: by the image generators with a Failure that
   carries an error code, by the chat generators with an apology text in a
   successful chat answer. *)
C22_ExceptionsAnswered ==
    (pc = "Done" /\ calls > 0 /\ Len(errs) = calls)
    => IF IsImageGen
       THEN ~result.success /\ result.error_code \notin {"none", "pending"}
                            /\ result.status \in {200, 400, 500, 502, 504}
       ELSE result.success /\ result.format = "text"

\* a timeout of the provider call answered as a TIMEOUT_ERROR Failure
C22_Witness ==
    /\ pc = "Done" /\ Gen = "banana_g25"
    /\ calls > 0 /\ Len(errs) = calls
    /\ errs[Len(errs)].kind = "Timeout"
    /\ ~result.success /\ result.error_code = "TIMEOUT_ERROR"

(* C23: no answer returned to a caller contains a stack trace: a Failure
   carries its error code and a message only. *)
C23_NoStackTrace ==
    result.detail # "traceback"

\* C24: handling one request never writes process-wide state that another
\* request reads: every environment value a request's client set-up read
\* was there when the process started, or was stored by that same request.
C24_NoSharedWrites ==
    \A r \in Requests : clients[r].saw \subseteq {r}

\* A lookup of token t in the sessions table that follows a create_session
\* call for t whose expiry was still ahead, with no delete_session since.
C25_LookupAfterCreate ==
    /\ answer.op = "db_lookup"
    /\ answer.token \notin closed
    /\ issued[answer.token].kind = "create"
    /\ issued[answer.token].expires_at > answer.at

\* C25 (as stated): for any session token t and existing user u, after
\* create_session(t, u, expiry in the future) get_user_from_session(t)
\* returns u, and after delete_session(t) it returns None.
C25_CreateThenLookup ==
    /\ C25_LookupAfterCreate => answer.user = issued[answer.token].user
    /\ answer.op = "db_lookup" /\ answer.token \in closed
          => answer.user = NoUser

\* C25 (amended): after a create_session(t, u, expiry in the future) that
\* returned True, get_user_from_session(t) returns u; after delete_session(t)
\* it returns None.
C25_CreatedThenLookup ==
    /\ C25_LookupAfterCreate /\ issued[answer.token].ok
          => answer.user = issued[answer.token].user
    /\ answer.op = "db_lookup" /\ answer.token \in closed
          => answer.user = NoUser

C25_Witness ==
    /\ C25_LookupAfterCreate
    /\ issued[answer.token].ok
    /\ answer.user \in Users

\* C26: the failure kind reported to the caller (error code and the HTTP
\* status mapped from it) is the kind the adapter assigned: a timeout is
\* reported as a timeout, a safety block as a safety block, and only a
\* failure that could not be classified is reported as Unknown.
C26_ReportedKindIsAssignedKind ==
    /\ pc = "Done"
    /\ entry = "studio:/api/banana-img-pro"
    /\ genret.tag = "error"
    /\ errs # <<>>
    => LET e == errs[Len(errs)]
       IN  /\ e.kind = "Timeout"
                => result.error_code = "TIMEOUT_ERROR" /\ result.status = 504
           /\ e.kind = "SafetyBlocked"
                => result.error_code = "SAFETY_BLOCKED" /\ result.status = 400
           /\ result.error_code = "UNKNOWN_ERROR" => e.kind = "Unknown"

\* C27: a session token whose expiry time has passed never authenticates:
\* looking it up through the auth layer returns no user, whatever logins
\* happened earlier in the same process.
C27_ExpiredNeverAuthenticates ==
    /\ answer.op = "lookup"
    /\ issued[answer.token].kind # "none"
    /\ issued[answer.token].expires_at <= answer.at
    => answer.user = NoUser

\* C28: manager-only operations are granted only to a token issued by a
\* successful manager login that was not logged out and has not expired; no
\* fixed token value grants manager permission.
C28_ManagerOnlyByManagerLogin ==
    /\ answer.op = "check_manager"
    /\ answer.status = 200
    => /\ issued[answer.token].kind = "manager"
       /\ answer.token \notin closed
       /\ issued[answer.token].expires_at > answer.at

\* C29: after logout(t) has returned, token t authenticates neither through
\* the sessions table nor through user_sessions, for every interleaving of
\* login, logout and lookup calls.
C29_LoggedOutNeverAuthenticates ==
    /\ \A t \in closed : sessions[t] = NoRow /\ user_sessions[t] = NoUser
    /\ answer.op = "lookup" /\ answer.token \in closed
          => answer.user = NoUser

C29_Witness ==
    /\ answer.op = "lookup"
    /\ answer.token \in closed
    /\ issued[answer.token].kind # "none"
    /\ issued[answer.token].expires_at > answer.at
    /\ \E t \in Tokens \ closed : user_sessions[t] # NoUser

\* C30: every string optimize_prompt returns after a successful model call
\* is at most 150 characters long when it is Chinese text (more than 30 %
\* Chinese characters) and at most 150 words long otherwise.
C30_OptimizedPromptBounded ==
    opt_pc = "Optimized"
    => IF is_chinese(optimized_prompt)
       THEN Len(optimized_prompt) <= max_limit
       ELSE WordCount(optimized_prompt) <= max_limit

====
